---- MODULE Spec2Model ----
(***************************************************************************)
(* Model of backend/server.py: the HTTP gateway between the slide-building *)
(* client and the generative-content Provider.                             *)
(*                                                                         *)
(* JSON values are records [t, v]: t is the JSON type ("null", "str",      *)
(* "int", "arr", "obj") and v the payload.  A string is a sequence of      *)
(* text atoms, so that concatenation, stripping and parsing are computed.  *)
(* An object is a record of its keys; a key that is not in the object      *)
(* holds Absent.  A Python exception raised by an expression is the value  *)
(* [t |-> "raise", v |-> <<class>>].                                        *)
(***************************************************************************)
EXTENDS Integers, Sequences, FiniteSets, TLC

(* ---------------------------------------------------------------- bounds *)
\* Parts in a Provider reply, concurrent requests, existing slides and
\* attachments in a request body, atoms in the text a model returns.
MaxParts == 2
MaxRequests == 2
MaxSlides == 2
MaxAttachments == 1
MaxRawLen == 3

\* content[:120] at line 180
ContentLimit == 120

Min(a, b) == IF a < b THEN a ELSE b
\* Sequences over S of length at most n.
SeqsUpTo(S, n) == UNION {[1..k -> S] : k \in 0..n}

(* ----------------------------------------------------------- JSON values *)
Null == [t |-> "null", v |-> <<>>]
Absent == [t |-> "absent", v |-> <<>>]
Str(s) == [t |-> "str", v |-> s]
Num(i) == [t |-> "int", v |-> i]
Arr(a) == [t |-> "arr", v |-> a]
Obj(o) == [t |-> "obj", v |-> o]
Raise(cls) == [t |-> "raise", v |-> <<cls>>]
EmptyStr == Str(<<>>)
EmptyArr == Arr(<<>>)
EmptyObj == Obj(<<>>)

IsRaise(x) == x.t = "raise"

\* The keys an object holds.
Keys(o) == {k \in DOMAIN o.v : o.v[k].t # "absent"}

\* Python truthiness of a JSON value: None, "", 0, [] and {} are falsy.
Truthy(x) ==
    CASE x.t = "null" -> FALSE
      [] x.t = "str" -> x.v # <<>>
      [] x.t = "int" -> x.v # 0
      [] x.t = "arr" -> x.v # <<>>
      [] x.t = "obj" -> Keys(x) # {}
      [] OTHER -> FALSE

\* x.get(k): None for a key the dict does not hold, AttributeError when x
\* is not a dict.
PyGet(x, k) ==
    IF IsRaise(x) THEN x
    ELSE IF x.t = "obj" THEN (IF k \in Keys(x) THEN x.v[k] ELSE Null)
    ELSE Raise("AttributeError")

\* x or d
PyOr(x, d) == IF IsRaise(x) THEN x ELSE IF Truthy(x) THEN x ELSE d

\* x[0] of a truthy x: the first element of a list, the first character of
\* a string, KeyError on a dict (JSON keys are strings), TypeError on an int.
PyFirst(x) ==
    IF IsRaise(x) THEN x
    ELSE CASE x.t = "arr" -> x.v[1]
           [] x.t = "str" -> Str(<<x.v[1]>>)
           [] x.t = "obj" -> Raise("KeyError")
           [] OTHER -> Raise("TypeError")

\* The items "for part in x" visits: the elements of a list, the characters
\* of a string, the keys of a dict; TypeError on an int.
KeySeq(S) == CHOOSE q \in [1..Cardinality(S) -> S] : \A k \in S : \E i \in DOMAIN q : q[i] = k
PyIter(x) ==
    IF IsRaise(x) THEN x
    ELSE CASE x.t = "arr" -> x
           [] x.t = "str" -> Arr([i \in DOMAIN x.v |-> Str(<<x.v[i]>>)])
           [] x.t = "obj" -> Arr([i \in 1..Cardinality(Keys(x)) |-> Str(<<KeySeq(Keys(x))[i]>>)])
           [] OTHER -> Raise("TypeError")

(* ------------------------------------------------------------ extractors *)
\* candidates[0].content.parts as lines 90-93 and 103-106 compute it: the
\* list of parts, <<>> for "return ''" without candidates, or a raise.
CandidateParts(resp) ==
    LET candidates == PyOr(PyGet(resp, "candidates"), EmptyArr)
    IN  IF IsRaise(candidates) THEN candidates
        ELSE IF ~Truthy(candidates) THEN EmptyArr
        ELSE PyIter(PyOr(PyGet(PyOr(PyGet(PyOr(PyFirst(candidates), EmptyObj),
                                          "content"), EmptyObj),
                               "parts"), EmptyArr))

\* TextLoop with the chunks joined by a newline.
RECURSIVE TextLoopJoined(_, _, _)
TextLoopJoined(parts, i, chunks) ==
    IF i > Len(parts) THEN Str(chunks)
    ELSE LET t == PyGet(parts[i], "text")
         IN  IF IsRaise(t) THEN t
             ELSE IF t.t = "str" /\ t.v # <<>>
                  THEN TextLoopJoined(parts, i + 1,
                                      (IF chunks = <<>> THEN <<>> ELSE chunks \o <<"\n">>) \o t.v)
                  ELSE TextLoopJoined(parts, i + 1, chunks)

\* Lines 94-99: the loop over the parts, chunks the text collected so far.
RECURSIVE TextLoop(_, _, _)
TextLoop(parts, i, chunks) ==
    IF i > Len(parts) THEN Str(chunks)
    ELSE LET t == PyGet(parts[i], "text")
         IN  IF IsRaise(t) THEN t
             ELSE IF t.t = "str" /\ t.v # <<>>
                  THEN TextLoop(parts, i + 1, chunks \o t.v)
                  ELSE TextLoop(parts, i + 1, chunks)

_extract_text(resp) ==
    LET parts == CandidateParts(resp)
    IN  IF IsRaise(parts) THEN parts ELSE TextLoop(parts.v, 1, <<>>)

\* InlineLoop returning the data of the last part that holds some.
RECURSIVE InlineLoopLast(_, _)
InlineLoopLast(parts, i) ==
    IF i > Len(parts) THEN EmptyStr
    ELSE LET inline == PyOr(PyGet(parts[i], "inlineData"), EmptyObj)
             data == PyGet(inline, "data")
             rest == InlineLoopLast(parts, i + 1)
         IN  IF IsRaise(data) THEN data
             ELSE IF IsRaise(rest) \/ rest # EmptyStr THEN rest
             ELSE IF data.t = "str" /\ data.v # <<>> THEN data
             ELSE EmptyStr

\* Lines 107-112: the loop over the parts.
RECURSIVE InlineLoop(_, _)
InlineLoop(parts, i) ==
    IF i > Len(parts) THEN EmptyStr
    ELSE LET inline == PyOr(PyGet(parts[i], "inlineData"), EmptyObj)
             data == PyGet(inline, "data")
         IN  IF IsRaise(data) THEN data
             ELSE IF data.t = "str" /\ data.v # <<>>
                  THEN data
                  ELSE InlineLoop(parts, i + 1)

_extract_inline_data_base64(resp) ==
    LET parts == CandidateParts(resp)
    IN  IF IsRaise(parts) THEN parts ELSE InlineLoop(parts.v, 1)

(* ------------------------------------------------------------------ text *)
IsSpace(c) == c \in {" ", "\n"}

\* The first position at or after i of s that holds no whitespace.
RECURSIVE SkipSpace(_, _)
SkipSpace(s, i) ==
    IF i <= Len(s) /\ IsSpace(s[i]) THEN SkipSpace(s, i + 1) ELSE i

\* The last position at or before i of s that holds no whitespace.
RECURSIVE SkipSpaceBack(_, _)
SkipSpaceBack(s, i) ==
    IF i >= 1 /\ IsSpace(s[i]) THEN SkipSpaceBack(s, i - 1) ELSE i

\* str.strip()
Strip(s) == SubSeq(s, SkipSpace(s, 1), SkipSpaceBack(s, Len(s)))

\* str.replace("\n", "; ")
RECURSIVE ReplaceNewlines(_)
ReplaceNewlines(s) ==
    IF s = <<>> THEN <<>>
    ELSE (IF Head(s) = "\n" THEN <<";", " ">> ELSE <<Head(s)>>)
         \o ReplaceNewlines(Tail(s))

DigitAtoms == <<"0", "1", "2", "3", "4", "5", "6", "7", "8", "9">>
\* str(n) of an integer
RECURSIVE Digits(_)
Digits(n) ==
    IF n < 0 THEN <<"-">> \o Digits(0 - n)
    ELSE IF n < 10 THEN <<DigitAtoms[n + 1]>>
    ELSE Digits(n \div 10) \o <<DigitAtoms[(n % 10) + 1]>>

\* What an f-string renders for a value.
Render(x) ==
    CASE x.t = "str" -> x.v
      [] x.t = "int" -> Digits(x.v)
      [] x.t = "null" -> <<"None">>
      [] OTHER -> <<"<repr>">>

(* ------------------------------------------------------------ json.loads *)
\* The JSON grammar over the atoms "[", "]", ",", "1" and whitespace: a
\* value is a number (a run of digits) or an array of values.
NoParse == [ok |-> FALSE, val |-> Null, next |-> 0]

RECURSIVE DigitRun(_, _, _)
DigitRun(s, i, n) ==
    IF i <= Len(s) /\ s[i] = "1" THEN DigitRun(s, i + 1, n * 10 + 1)
    ELSE [ok |-> TRUE, val |-> Num(n), next |-> i]

RECURSIVE ParseValue(_, _)
RECURSIVE ParseElems(_, _, _)
ParseValue(s, i) ==
    IF i > Len(s) THEN NoParse
    ELSE IF s[i] = "1" THEN DigitRun(s, i, 0)
    ELSE IF s[i] = "["
         THEN LET k == SkipSpace(s, i + 1)
              IN  IF k <= Len(s) /\ s[k] = "]"
                  THEN [ok |-> TRUE, val |-> EmptyArr, next |-> k + 1]
                  ELSE ParseElems(s, k, <<>>)
    ELSE NoParse

\* The elements of an array from position i on, acc the elements read.
ParseElems(s, i, acc) ==
    LET e == ParseValue(s, i)
    IN  IF ~e.ok THEN NoParse
        ELSE LET k == SkipSpace(s, e.next)
             IN  IF k > Len(s) THEN NoParse
                 ELSE IF s[k] = "]"
                      THEN [ok |-> TRUE, val |-> Arr(Append(acc, e.val)), next |-> k + 1]
                 ELSE IF s[k] = ","
                      THEN ParseElems(s, SkipSpace(s, k + 1), Append(acc, e.val))
                 ELSE NoParse

\* json.loads(s): the value, or JSONDecodeError.
Loads(s) ==
    LET r == ParseValue(s, SkipSpace(s, 1))
    IN  IF r.ok /\ SkipSpace(s, r.next) > Len(s) THEN r.val
        ELSE Raise("JSONDecodeError")

(* ------------------------------------------------------------ json.dumps *)
RECURSIVE Dumps(_)
RECURSIVE DumpItems(_, _)
RECURSIVE DumpKeys(_, _, _)
Dumps(x) ==
    CASE x.t = "str" -> <<"\"">> \o x.v \o <<"\"">>
      [] x.t = "int" -> Digits(x.v)
      [] x.t = "arr" -> <<"[">> \o DumpItems(x.v, 1) \o <<"]">>
      [] x.t = "obj" -> <<"{">> \o DumpKeys(x, KeySeq(Keys(x)), 1) \o <<"}">>
      [] OTHER -> <<"null">>

DumpItems(a, i) ==
    IF i > Len(a) THEN <<>>
    ELSE (IF i > 1 THEN <<",", " ">> ELSE <<>>) \o Dumps(a[i]) \o DumpItems(a, i + 1)

DumpKeys(o, ks, i) ==
    IF i > Len(ks) THEN <<>>
    ELSE (IF i > 1 THEN <<",", " ">> ELSE <<>>)
         \o <<"\"", ks[i], "\"", ":", " ">> \o Dumps(o.v[ks[i]]) \o DumpKeys(o, ks, i + 1)

(* ------------------------------------------------------- Python helpers *)
\* The first raise among the values of xs, or ok when none raised.
RECURSIVE FirstRaise(_, _)
FirstRaise(xs, ok) ==
    IF xs = <<>> THEN ok
    ELSE IF IsRaise(Head(xs)) THEN Head(xs) ELSE FirstRaise(Tail(xs), ok)

\* x.strip(), x.replace("\n", "; "): methods of str only.
PyStrip(x) ==
    IF IsRaise(x) THEN x
    ELSE IF x.t = "str" THEN Str(Strip(x.v)) ELSE Raise("AttributeError")

PyReplace(x) ==
    IF IsRaise(x) THEN x
    ELSE IF x.t = "str" THEN Str(ReplaceNewlines(x.v)) ELSE Raise("AttributeError")

\* The number a run of decimal digits writes, n the value read so far.
RECURSIVE DigitValue(_, _)
DigitValue(s, n) ==
    IF s = <<>> THEN n
    ELSE DigitValue(Tail(s), n * 10 + (CHOOSE d \in 0..9 : DigitAtoms[d + 1] = Head(s)))

\* int(x): the integer itself, the number a text of digits writes,
\* ValueError for any other text, TypeError for None, a list or a dict.
PyInt(x) ==
    IF IsRaise(x) THEN x
    ELSE CASE x.t = "int" -> x
           [] x.t = "str" ->
                LET s == Strip(x.v)
                IN  IF s # <<>> /\ \A i \in DOMAIN s : \E d \in 0..9 : DigitAtoms[d + 1] = s[i]
                    THEN Num(DigitValue(s, 0))
                    ELSE Raise("ValueError")
           [] OTHER -> Raise("TypeError")

(* ------------------------------------------------------- prompt builders *)
\* The keys of the request bodies of section 6, none of them set.
FieldNames ==
    {"topic", "attachments", "presentationTopic", "slideDescription",
     "existingSlides", "insertIndex", "slide", "config", "theme",
     "presentationContext", "notes", "mode", "targetLanguage"}
NoFields == [k \in FieldNames |-> Absent]

OUTLINE_SYSTEM_INSTRUCTION ==
    <<"You are an elite presentation architect and visual storytelling expert.">>

Part(text, inline) == Obj([text |-> text, inlineData |-> inline])
InlineData(mime, data) == Obj([mimeType |-> mime, data |-> data])
Content(role, parts) == Obj([role |-> role, parts |-> parts])
RequestBody(parts, system, config) ==
    Obj([contents |-> Arr(<<Content(Str(<<"user">>), Arr(parts))>>),
         systemInstruction |-> system,
         generationConfig |-> config])
GenerationConfig(mime, image) ==
    Obj([responseMimeType |-> mime, imageConfig |-> image])
SystemInstruction ==
    Content(Str(<<"user">>), Arr(<<Part(Str(OUTLINE_SYSTEM_INSTRUCTION), Absent)>>))
JsonConfig == GenerationConfig(Str(<<"application/json">>), Absent)
Prompt(model, body, context) == [t |-> "prompt", model |-> model, body |-> body, context |-> context]
NoPrompt == Prompt(Null, Null, <<>>)

\* Lines 139-140: one inline-data part per attachment, in input order.
RECURSIVE AttachmentParts(_, _, _)
AttachmentParts(attachments, i, parts) ==
    IF i > Len(attachments) THEN Arr(parts)
    ELSE LET mime == PyGet(attachments[i], "mimeType")
             data == PyGet(attachments[i], "data")
         IN  IF IsRaise(mime) THEN mime
             ELSE AttachmentParts(attachments, i + 1,
                                  Append(parts, Part(Absent, InlineData(mime, data))))

BuildOutline(payload) ==
    LET topic == PyStrip(PyOr(PyGet(payload, "topic"), EmptyStr))
        attachments == PyIter(PyOr(PyGet(payload, "attachments"), EmptyArr))
        parts == IF IsRaise(attachments) THEN attachments
                 ELSE AttachmentParts(attachments.v, 1, <<>>)
        text == <<"Create a world-class, award-winning presentation deck for: ">>
                \o (IF Truthy(topic) THEN topic.v ELSE <<"the provided content">>)
                \o <<".", "\n",
                     "Return ONLY valid JSON (no markdown) as an array of slides with title, content, visualDescription, layout.">>
    IN  FirstRaise(<<topic, parts>>,
                   Prompt(Str(<<"gemini-2.5-pro">>),
                          RequestBody(Append(parts.v, Part(Str(text), Absent)),
                                      SystemInstruction, JsonConfig),
                          <<>>))

MarkerLine == <<">>> [INSERT NEW SLIDE HERE] <<<">>
HeaderLines == <<<<>>, <<"Current Presentation Outline:">>>>

\* Line 180: the summary line of slide i (counted from 0).
SlideLine(i, title, content) ==
    <<"Slide ">> \o Digits(i + 1) \o <<": ">> \o Render(title) \o <<" (">>
    \o SubSeq(content.v, 1, Min(ContentLimit, Len(content.v))) \o <<"...)">>

\* Lines 173-180: the loop over i = 0 .. len(existing_slides), lines the
\* lines emitted so far; the lines of the context, or a raise.
RECURSIVE OutlineLoop(_, _, _, _)
OutlineLoop(slides, insert_index, i, lines) ==
    IF i > Len(slides) THEN Arr(lines)
    ELSE LET marked == IF i = insert_index THEN Append(lines, MarkerLine) ELSE lines
         IN  IF i < Len(slides)
             THEN LET s == PyOr(slides[i + 1], EmptyObj)
                      title == PyOr(PyGet(s, "title"), EmptyStr)
                      content == PyReplace(PyOr(PyGet(s, "content"), EmptyStr))
                  IN  IF IsRaise(title) THEN title
                      ELSE IF IsRaise(content) THEN content
                      ELSE OutlineLoop(slides, insert_index, i + 1,
                                       Append(marked, SlideLine(i, title, content)))
             ELSE OutlineLoop(slides, insert_index, i + 1, marked)

\* InsertIndex without the default for a missing index.
InsertIndexNoDefault(payload) == PyInt(PyGet(payload, "insertIndex"))

\* Line 168: int(payload.get("insertIndex") or -1)
InsertIndex(payload) == PyInt(PyOr(PyGet(payload, "insertIndex"), Num(-1)))

\* Lines 170-180: context_outline as its lines.
ContextOutline(existing_slides, insert_index) ==
    IF existing_slides.t = "arr" /\ Truthy(existing_slides)
    THEN LET lines == OutlineLoop(existing_slides.v, insert_index, 0, <<>>)
         IN  IF IsRaise(lines) THEN lines ELSE Arr(HeaderLines \o lines.v)
    ELSE EmptyArr

\* "".join(line + "\n")
RECURSIVE JoinLines(_)
JoinLines(lines) ==
    IF lines = <<>> THEN <<>> ELSE Head(lines) \o <<"\n">> \o JoinLines(Tail(lines))

BuildSingleSlide(payload) ==
    LET presentation_topic == PyOr(PyGet(payload, "presentationTopic"), EmptyStr)
        slide_description == PyOr(PyGet(payload, "slideDescription"), EmptyStr)
        existing_slides == PyOr(PyGet(payload, "existingSlides"), EmptyArr)
        insert_index == InsertIndex(payload)
        context_outline == IF IsRaise(insert_index) THEN insert_index
                           ELSE ContextOutline(existing_slides, insert_index.v)
        prompt == <<"Presentation Topic: ">> \o Render(presentation_topic) \o <<"\n">>
                  \o JoinLines(context_outline.v)
                  \o <<"\n", "New Slide Request: ">> \o Render(slide_description)
                  \o <<"\n", "\n", "Create a single, award-winning slide that fits naturally.", "\n",
                       "Return ONLY valid JSON (no markdown) with keys: title, content, visualDescription, layout.">>
    IN  FirstRaise(<<insert_index, context_outline>>,
                   Prompt(Str(<<"gemini-2.5-pro">>),
                          RequestBody(<<Part(Str(prompt), Absent)>>, SystemInstruction, JsonConfig),
                          context_outline.v))

\* Lines 222-224 and 253-255: image_cfg
ImageConfig(config) ==
    LET size == PyGet(config, "imageSize")
    IN  GenerationConfig(Absent,
            Obj([aspectRatio |-> PyOr(PyGet(config, "aspectRatio"), Str(<<"16:9">>)),
                 imageSize |-> IF Truthy(size) THEN size ELSE Absent]))

ImageRequirements(last) ==
    <<"ABSOLUTE REQUIREMENTS:", "\n",
      "- ZERO text, words, letters, numbers, or characters", "\n",
      "- No watermarks, logos, or overlays", "\n", last, "\n">>

BuildSlideImage(payload) ==
    LET slide == PyOr(PyGet(payload, "slide"), EmptyObj)
        config == PyOr(PyGet(payload, "config"), EmptyObj)
        visual == PyOr(PyGet(slide, "visualDescription"), EmptyStr)
        title == PyOr(PyGet(slide, "title"), EmptyStr)
        model == PyOr(PyGet(config, "model"), Str(<<"gemini-2.5-flash-image">>))
        prompt == <<"Ultra-premium, award-winning presentation background image.", "\n", "\n",
                    "Visual Concept: ">> \o Render(visual) \o <<"\n", "Thematic Context: ">>
                  \o Render(title) \o <<"\n", "\n">>
                  \o ImageRequirements("- Suitable as a backdrop for text overlay")
    IN  FirstRaise(<<visual, title, model>>,
                   Prompt(model,
                          RequestBody(<<Part(Str(prompt), Absent)>>, Absent, ImageConfig(config)),
                          <<>>))

BuildThemedBackground(payload) ==
    LET theme == PyOr(PyGet(payload, "theme"), EmptyObj)
        presentation_context == PyGet(payload, "presentationContext")
        config == PyOr(PyGet(payload, "config"), EmptyObj)
        name == PyOr(PyGet(theme, "name"), EmptyStr)
        snippet == PyOr(PyGet(theme, "promptSnippet"), EmptyStr)
        model == PyOr(PyGet(config, "model"), Str(<<"gemini-2.5-flash-image">>))
        prompt == <<"Premium presentation background with consistent, cohesive visual theme.", "\n", "\n",
                    "THEME: ">> \o Render(name) \o <<"\n">> \o Render(snippet)
                  \o <<"\n", "\n", "PRESENTATION CONTEXT:", "\n">>
                  \o Render(PyOr(presentation_context, Str(<<"Professional presentation">>)))
                  \o <<"\n", "\n">> \o ImageRequirements("- Must work across many slides")
    IN  FirstRaise(<<name, snippet, model>>,
                   Prompt(model,
                          RequestBody(<<Part(Str(prompt), Absent)>>, Absent, ImageConfig(config)),
                          <<>>))

BuildEnhanceNotes(payload) ==
    LET notes == PyOr(PyGet(payload, "notes"), EmptyStr)
        mode == PyOr(PyGet(payload, "mode"), Str(<<"enhance">>))
        target_language == PyGet(payload, "targetLanguage")
        prompt == <<"Act as a professional presentation coach and speechwriter.", "\n",
                    "Improve the following speaker notes based on the requested mode.", "\n", "\n",
                    "Original Notes: \"">> \o Render(notes) \o <<"\"", "\n", "\n", "Mode: ">>
                  \o Render(mode) \o <<"\n">>
                  \o (IF mode = Str(<<"translate">>) /\ Truthy(target_language)
                      THEN <<"Target Language: ">> \o Render(target_language) \o <<"\n">>
                      ELSE <<>>)
                  \o <<"\n", "Return ONLY the improved notes text. Do not include explanations.">>
    IN  Prompt(Str(<<"gemini-2.5-pro">>),
               RequestBody(<<Part(Str(prompt), Absent)>>, Absent, Absent),
               <<>>)

\* A path as its segments: "/api/single-slide" is <<"api", "single-slide">>.
OutlinePath == <<"api", "outline-stream">>
SingleSlidePath == <<"api", "single-slide">>
SlideImagePath == <<"api", "slide-image">>
ThemedBackgroundPath == <<"api", "themed-background">>
EnhanceNotesPath == <<"api", "enhance-notes">>
UnknownApiPath == <<"api", "does-not-exist">>
StaticPath == <<"index.html">>
KnownPaths == {OutlinePath, SingleSlidePath, SlideImagePath, ThemedBackgroundPath, EnhanceNotesPath}

\* UnderApi matching the path "/api" alone.
UnderApiExact(path) == path = <<"api">>

\* self.path.startswith("/api/")
UnderApi(path) == Len(path) >= 2 /\ path[1] = "api"

\* The prompt construction of the branch of do_POST that serves path.
BuildPrompt(path, payload) ==
    CASE path = OutlinePath -> BuildOutline(payload)
      [] path = SingleSlidePath -> BuildSingleSlide(payload)
      [] path = SlideImagePath -> BuildSlideImage(payload)
      [] path = ThemedBackgroundPath -> BuildThemedBackground(payload)
      [] OTHER -> BuildEnhanceNotes(payload)

(* --------------------------------------------------------- the Provider *)
\* What urlopen does for one request: a 2xx reply whose body is the JSON
\* value env, a 2xx reply that is no JSON, an HTTPError with the upstream
\* status and body text, or a transport failure.
Reply(env) == [kind |-> "ok", code |-> 200, text |-> <<>>, env |-> env]
NotJson == [kind |-> "badjson", code |-> 200, text |-> <<"<html>">>, env |-> Null]
HttpError(code, text) == [kind |-> "HTTPError", code |-> code, text |-> text, env |-> Null]
Unreachable == [kind |-> "URLError", code |-> 0, text |-> <<>>, env |-> Null]

Candidate(parts) == Obj([content |-> Obj([parts |-> parts])])
Envelope(candidates) == Obj([candidates |-> candidates])
TextPart(s) == Part(Str(s), Absent)
InlinePart(data) == Part(Absent, InlineData(Str(<<"image/png">>), data))

(* ------------------------------------------------------------ exceptions *)
Exc(cls, code, text) == [cls |-> cls, code |-> code, text |-> text]
NoExc == Exc("none", 0, <<>>)

\* str(e)
Message(exc) ==
    CASE exc.cls = "RuntimeError" -> <<"Missing GEMINI_API_KEY on the server">>
      [] exc.cls = "JSONDecodeError" -> <<"Expecting value: line 1 column 1 (char 0)">>
      [] exc.cls = "AttributeError" -> <<"object has no attribute 'get'">>
      [] exc.cls = "KeyError" -> <<"0">>
      [] exc.cls = "TypeError" -> <<"object is not iterable">>
      [] exc.cls = "ValueError" -> <<"invalid literal for int()">>
      [] exc.cls = "URLError" -> <<"<urlopen error timed out>">>
      [] OTHER -> exc.text

\* The classes "except Exception" catches (line 293): every class raised
\* here derives from Exception.
ExceptionClasses ==
    {"RuntimeError", "JSONDecodeError", "AttributeError", "KeyError",
     "TypeError", "ValueError", "URLError", "HTTPError"}

(* ------------------------------------------------------------- responses *)
Response(status, ctype, body) == [status |-> status, ctype |-> ctype, body |-> body]

\* _text_response and _json_response: what they write.
_text_response(status, text) == Response(status, "text/plain", text)
_json_response(status, payload) == Response(status, "application/json", Dumps(payload))

\* UpstreamStatus answering every upstream error with 500.
UpstreamStatusAlways500(exc) == 500

\* Lines 291-292: the status and the body that answer an HTTPError.
UpstreamStatus(exc) == IF exc.code = 0 THEN 500 ELSE exc.code
UpstreamBody(exc) == IF exc.text = <<>> THEN <<"Upstream error">> ELSE exc.text

\* Line 294
ServerErrorBody(exc) == IF Message(exc) = <<>> THEN <<"Server error">> ELSE Message(exc)

\* CatchClause with the second clause catching RuntimeError only.
CatchClauseNarrow(exc) ==
    IF exc.cls = "HTTPError" THEN "HTTPError"
    ELSE IF exc.cls = "RuntimeError" THEN "Exception"
    ELSE "none"

\* Lines 290-294: the except clauses of do_POST; "none" when neither
\* clause catches the exception.
CatchClause(exc) ==
    IF exc.cls = "HTTPError" THEN "HTTPError"
    ELSE IF exc.cls \in ExceptionClasses THEN "Exception"
    ELSE "none"

ErrorResponse(exc) ==
    IF CatchClause(exc) = "HTTPError"
    THEN _text_response(UpstreamStatus(exc), UpstreamBody(exc))
    ELSE _text_response(500, ServerErrorBody(exc))

(* ----------------------------------------------------------------- state *)
VARIABLES
    apiKey,     \* GEMINI_API_KEY is set (line 19)
    input,      \* per request: method, path, body, the Provider's reply, dist/
    pc,         \* per request: the step of the handler it has reached
    payload,    \* per request: the parsed request body
    prompt,     \* per request: model, Provider request body, context_outline
    calls,      \* per request: the requests sent to the Provider
    resp,       \* per request: the Provider's response envelope
    extracted,  \* per request: what the extractor returned
    responses,  \* per request: the responses written to the client
    failure     \* per request: the exception raised and the step that raised it

vars == <<apiKey, input, pc, payload, prompt, calls, resp, extracted, responses, failure>>

Requests == DOMAIN pc

Failure(exc, at) == [exc |-> exc, at |-> at]
NoFailure == Failure(NoExc, "none")

\* The handler writes response and ends in state next.
Finish(r, next, response, fail) ==
    /\ pc' = [pc EXCEPT ![r] = next]
    /\ responses' = [responses EXCEPT ![r] = Append(@, response)]
    /\ failure' = [failure EXCEPT ![r] = fail]

\* An exception raised at step at of do_POST reaches the except clauses.
Except(r, exc, at) ==
    IF CatchClause(exc) # "none"
    THEN Finish(r, "Failed", ErrorResponse(exc), Failure(exc, at))
    ELSE /\ pc' = [pc EXCEPT ![r] = "Escaped"]
         /\ failure' = [failure EXCEPT ![r] = Failure(exc, at)]
         /\ UNCHANGED responses

ExcOf(raise) == Exc(raise.v[1], 0, <<>>)

(* --------------------------------------------------------------- do_POST *)
\* _read_json: {} for a request without a body, else json.loads of it.
_read_json(raw) ==
    CASE raw.kind = "none" -> Obj(NoFields)
      [] raw.kind = "json" -> raw.json
      [] OTHER -> Raise("JSONDecodeError")

\* Lines 133-134 (and 163, 207, 236, 267, 289): pick the branch of the
\* path, 404 when there is none, and read the request body.
ReadJson(r) ==
    /\ pc[r] = "Received"
    /\ input[r].method = "POST"
    /\ IF input[r].path \notin KnownPaths
       THEN /\ Finish(r, "Failed", _text_response(404, <<"Not found">>), NoFailure)
            /\ UNCHANGED payload
       ELSE IF IsRaise(_read_json(input[r].raw))
       THEN /\ Except(r, ExcOf(_read_json(input[r].raw)), "parse")
            /\ UNCHANGED payload
       ELSE /\ payload' = [payload EXCEPT ![r] = _read_json(input[r].raw)]
            /\ pc' = [pc EXCEPT ![r] = "Parsed"]
            /\ UNCHANGED <<responses, failure>>
    /\ UNCHANGED <<apiKey, input, prompt, calls, resp, extracted>>

\* The statements of the branch up to the call of _gemini_generate_content.
Build(r) ==
    /\ pc[r] = "Parsed"
    /\ LET built == BuildPrompt(input[r].path, payload[r])
       IN  IF IsRaise(built)
           THEN /\ Except(r, ExcOf(built), "build")
                /\ UNCHANGED prompt
           ELSE /\ prompt' = [prompt EXCEPT ![r] = built]
                /\ pc' = [pc EXCEPT ![r] = "Built"]
                /\ UNCHANGED <<responses, failure>>
    /\ UNCHANGED <<apiKey, input, payload, calls, resp, extracted>>

\* Line 77: model_path
ModelPath(model) ==
    IF model.t # "str" THEN Raise("AttributeError")
    ELSE IF model.v # <<>> /\ model.v[1] \in {"models/", "tunedModels/"} THEN model
    ELSE Str(<<"models/">> \o model.v)

\* The exception urlopen or json.loads raises for a reply (lines 85-86).
CallError(reply) ==
    CASE reply.kind = "HTTPError" -> Exc("HTTPError", reply.code, reply.text)
      [] reply.kind = "URLError" -> Exc("URLError", 0, <<>>)
      [] OTHER -> Exc("JSONDecodeError", 0, <<>>)

\* Attempts with one retry of a request that failed.
AttemptsWithRetry(reply) == IF reply.kind = "ok" THEN 1 ELSE 2

\* How often _gemini_generate_content sends the request (line 85): once,
\* whatever the reply.
Attempts(reply) == 1

Sent(r, reply) ==
    [i \in 1..Attempts(reply) |->
        [model |-> ModelPath(prompt[r].model), body |-> prompt[r].body]]

\* _gemini_generate_content (lines 75-86) as the branch calls it.
GenerateContent(r) ==
    /\ pc[r] = "Built"
    /\ IF ~apiKey
       THEN /\ Except(r, Exc("RuntimeError", 0, <<>>), "config")
            /\ UNCHANGED <<calls, resp>>
       ELSE IF IsRaise(ModelPath(prompt[r].model))
       THEN /\ Except(r, ExcOf(ModelPath(prompt[r].model)), "call")
            /\ UNCHANGED <<calls, resp>>
       ELSE /\ calls' = [calls EXCEPT ![r] = @ \o Sent(r, input[r].upstream)]
            /\ IF input[r].upstream.kind = "ok"
               THEN /\ resp' = [resp EXCEPT ![r] = input[r].upstream.env]
                    /\ pc' = [pc EXCEPT ![r] = "Called"]
                    /\ UNCHANGED <<responses, failure>>
               ELSE /\ Except(r, CallError(input[r].upstream), "call")
                    /\ UNCHANGED resp
    /\ UNCHANGED <<apiKey, input, payload, prompt, extracted>>

\* The extractor the branch of path applies to the envelope.
Extractor(path, envelope) ==
    IF path \in {SlideImagePath, ThemedBackgroundPath}
    THEN _extract_inline_data_base64(envelope)
    ELSE _extract_text(envelope)

Extract(r) ==
    /\ pc[r] = "Called"
    /\ LET out == Extractor(input[r].path, resp[r])
       IN  IF IsRaise(out)
           THEN /\ Except(r, ExcOf(out), "extract")
                /\ UNCHANGED extracted
           ELSE /\ extracted' = [extracted EXCEPT ![r] = out]
                /\ pc' = [pc EXCEPT ![r] = "Extracted"]
                /\ UNCHANGED <<responses, failure>>
    /\ UNCHANGED <<apiKey, input, payload, prompt, calls, resp>>

\* SingleSlideResponse forwarding the text the model returned when it is
\* no JSON.
SingleSlideResponseRaw(text) ==
    LET raw == Strip(text)
        data == Loads(raw)
    IN  IF IsRaise(data)
        THEN _text_response(500, raw)
        ELSE _json_response(200, data)

\* Lines 198-205: the response of the single-slide branch to the text.
SingleSlideResponse(text) ==
    LET raw == Strip(text)
        data == Loads(raw)
    IN  IF IsRaise(data)
        THEN _text_response(500, <<"Model did not return valid JSON">>)
        ELSE _json_response(200, data)

\* Lines 160, 198-205, 233, 264 and 286: the response after extraction.
SuccessResponse(path, out) ==
    CASE path = OutlinePath -> _text_response(200, out.v)
      [] path = SingleSlidePath -> SingleSlideResponse(out.v)
      [] path = EnhanceNotesPath ->
            _json_response(200, Obj([text |-> Str(Strip(out.v))]))
      [] OTHER -> _json_response(200, Obj([data |-> out]))

Respond(r) ==
    /\ pc[r] = "Extracted"
    /\ LET response == SuccessResponse(input[r].path, extracted[r])
       IN  IF response.status = 200
           THEN Finish(r, "Responded", response, NoFailure)
           ELSE Finish(r, "Failed", response, Failure(Exc("JSONDecodeError", 0, <<>>), "json"))
    /\ UNCHANGED <<apiKey, input, payload, prompt, calls, resp, extracted>>

(* ------------------------------------------------------ the other methods *)
\* Lines 301-333: the static file, else dist/index.html, else 404.
StaticResponse(dist) ==
    CASE dist = "file" -> Response(200, "application/octet-stream", <<"<file>">>)
      [] dist = "index" -> Response(200, "text/html", <<"<index>">>)
      [] OTHER -> _text_response(404, <<"Not found">>)

do_GET(r) ==
    /\ pc[r] = "Received"
    /\ input[r].method = "GET"
    /\ IF UnderApi(input[r].path)
       THEN Finish(r, "Failed", _text_response(405, <<"Method not allowed">>), NoFailure)
       ELSE Finish(r, IF StaticResponse(input[r].dist).status = 200 THEN "Responded" ELSE "Failed",
                   StaticResponse(input[r].dist), NoFailure)
    /\ UNCHANGED <<apiKey, input, payload, prompt, calls, resp, extracted>>

do_OPTIONS(r) ==
    /\ pc[r] = "Received"
    /\ input[r].method = "OPTIONS"
    /\ Finish(r, "Responded", Response(204, "", <<>>), NoFailure)
    /\ UNCHANGED <<apiKey, input, payload, prompt, calls, resp, extracted>>

\* The methods Handler defines: a request of any other method is answered
\* by BaseHTTPRequestHandler with 501.
HandledMethods == {"GET", "POST", "OPTIONS"}

Unsupported(r) ==
    /\ pc[r] = "Received"
    /\ input[r].method \notin HandledMethods
    /\ Finish(r, "Failed", Response(501, "text/html", <<"Unsupported method">>), NoFailure)
    /\ UNCHANGED <<apiKey, input, payload, prompt, calls, resp, extracted>>

(* ---------------------------------------------------------------- inputs *)
Input(method, path, raw, upstream, dist) ==
    [method |-> method, path |-> path, raw |-> raw, upstream |-> upstream, dist |-> dist]
NoBody == [kind |-> "none", json |-> Null]
BadBody == [kind |-> "bad", json |-> Null]
JsonBody(value) == [kind |-> "json", json |-> value]

Optional(S) == {Absent, Null} \cup S

\* Text a model returns for a slide: JSON or not.
RawAtoms == {"[", "]", "1", ",", " "}
RawTexts == SeqsUpTo(RawAtoms, MaxRawLen)

\* Provider replies: well-shaped parts and parts of the wrong shape.
GoodParts ==
    {TextPart(s) : s \in {<<>>, <<"A">>, <<"B">>}}
    \cup {InlinePart(Str(d)) : d \in {<<>>, <<"X">>, <<"Y">>}}
BadParts ==
    {Null, Str(<<"A">>), Part(Null, Null), Part(Num(1), Absent),
     Part(Absent, Str(<<"X">>)), InlinePart(Null), InlinePart(Absent)}
OtherCandidate == Candidate(Arr(<<TextPart(<<"B">>), InlinePart(Str(<<"Y">>))>>))
PartLists == {Arr(ps) : ps \in SeqsUpTo(GoodParts \cup BadParts, MaxParts)}
BadContainers == {Absent, Null, Str(<<"A">>), Num(1), Obj([a |-> Num(1)])}
Envelopes ==
    {Envelope(Arr(<<Candidate(ps)>>)) : ps \in PartLists \cup BadContainers}
    \cup {Envelope(Arr(<<Candidate(ps), OtherCandidate>>)) : ps \in PartLists}
    \cup {Envelope(c) : c \in BadContainers \cup {EmptyArr, Arr(<<Null>>), Arr(<<Null, OtherCandidate>>),
                                                  Arr(<<Str(<<"A">>)>>), Arr(<<Num(1)>>)}}
    \cup {Envelope(Arr(<<Obj([content |-> c])>>)) : c \in BadContainers \cup {EmptyArr}}
    \cup {Null, EmptyArr}

TextReply(s) == Reply(Envelope(Arr(<<Candidate(Arr(<<TextPart(s)>>))>>)))
SlideReply == TextReply(<<"[", "1", "]">>)

Methods == {"POST", "GET", "OPTIONS", "PUT", "DELETE", "PATCH", "HEAD"}
Paths == KnownPaths \cup {UnknownApiPath, StaticPath}

(* ---------------------------------------------------------- specification *)
InitWith(n, keys, inputs) ==
    /\ apiKey \in keys
    /\ input \in [1..n -> inputs]
    /\ pc = [r \in 1..n |-> "Received"]
    /\ payload = [r \in 1..n |-> Null]
    /\ prompt = [r \in 1..n |-> NoPrompt]
    /\ calls = [r \in 1..n |-> <<>>]
    /\ resp = [r \in 1..n |-> Null]
    /\ extracted = [r \in 1..n |-> Null]
    /\ responses = [r \in 1..n |-> <<>>]
    /\ failure = [r \in 1..n |-> NoFailure]

\* do_POST, step by step, of any request in flight.
NextPost ==
    \/ \E r \in Requests : ReadJson(r)
    \/ \E r \in Requests : Build(r)
    \/ \E r \in Requests : GenerateContent(r)
    \/ \E r \in Requests : Extract(r)
    \/ \E r \in Requests : Respond(r)

Next ==
    \/ NextPost
    \/ \E r \in Requests : do_GET(r)
    \/ \E r \in Requests : do_OPTIONS(r)
    \/ \E r \in Requests : Unsupported(r)

\* The extractors on every reply, well shaped or not.
ExtractInputs ==
    {Input("POST", p, NoBody, Reply(e), "none") :
        p \in {EnhanceNotesPath, SlideImagePath}, e \in Envelopes}
InitExtract == InitWith(1, {TRUE}, ExtractInputs)
SpecExtract == InitExtract /\ [][NextPost]_vars

\* Request bodies: JSON objects whose documented fields are, each on its
\* own, present, absent or null.
Attachments ==
    {InlineData(m, d) : m \in Optional({Str(<<"image/png">>)}), d \in Optional({Str(<<"QUJD">>)})}
OutlinePayloads ==
    {Obj([NoFields EXCEPT !.topic = t, !.attachments = a]) :
        t \in Optional({Str(<<" ">>), Str(<<"AI">>)}),
        a \in Optional({Arr(x) : x \in SeqsUpTo(Attachments, MaxAttachments)})}
Slides ==
    {Null, Obj([title |-> Absent, content |-> Absent]), Obj([title |-> Null, content |-> Null]),
     Obj([title |-> Str(<<"Intro">>), content |-> Str(<<"a", "\n", "b">>)])}
SingleSlidePayloads ==
    {Obj([NoFields EXCEPT !.presentationTopic = t, !.slideDescription = d,
                          !.existingSlides = e, !.insertIndex = k]) :
        t \in Optional({Str(<<"Deck">>)}),
        d \in Optional({Str(<<"Agenda">>)}),
        e \in Optional({Arr(x) : x \in SeqsUpTo(Slides, MaxSlides)}),
        k \in Optional({Num(i) : i \in -1..(MaxSlides + 1)})}
ImageConfigs ==
    Optional({Obj([aspectRatio |-> a, imageSize |-> z, model |-> m]) :
                a \in Optional({Str(<<"4:3">>)}),
                z \in Optional({Str(<<"2K">>)}),
                m \in Optional({Str(<<"custom">>), Str(<<"models/", "custom">>)})})
SlideImagePayloads ==
    {Obj([NoFields EXCEPT !.slide = sl, !.config = c]) :
        sl \in Optional({Obj([visualDescription |-> v, title |-> t]) :
                            v \in Optional({Str(<<"waves">>)}), t \in Optional({Str(<<"Intro">>)})}),
        c \in ImageConfigs}
ThemedBackgroundPayloads ==
    {Obj([NoFields EXCEPT !.theme = th, !.presentationContext = x, !.config = c]) :
        th \in Optional({Obj([name |-> n, promptSnippet |-> ps]) :
                            n \in Optional({Str(<<"Noir">>)}), ps \in Optional({Str(<<"dark">>)})}),
        x \in Optional({Str(<<"Sales">>)}),
        c \in ImageConfigs}
EnhanceNotesPayloads ==
    {Obj([NoFields EXCEPT !.notes = n, !.mode = m, !.targetLanguage = l]) :
        n \in Optional({Str(<<"hello">>)}),
        m \in Optional({Str(<<"translate">>), Str(<<"enhance">>)}),
        l \in Optional({Str(<<"fr">>)})}
Payloads(path) ==
    CASE path = OutlinePath -> OutlinePayloads
      [] path = SingleSlidePath -> SingleSlidePayloads
      [] path = SlideImagePath -> SlideImagePayloads
      [] path = ThemedBackgroundPath -> ThemedBackgroundPayloads
      [] OTHER -> EnhanceNotesPayloads

\* A reply every branch answers 200 to.
FullReply ==
    Reply(Envelope(Arr(<<Candidate(Arr(<<TextPart(<<"[", "1", "]">>), InlinePart(Str(<<"X">>))>>))>>)))

\* Prompt construction on every request body of the documented shape.
BuildInputs ==
    UNION {{Input("POST", p, NoBody, FullReply, "none")}
           \cup {Input("POST", p, JsonBody(b), FullReply, "none") : b \in Payloads(p)} :
           p \in KnownPaths}
InitBuild == InitWith(1, BOOLEAN, BuildInputs)
SpecBuild == InitBuild /\ [][NextPost]_vars

\* The gateway, one request at a time: every method and path, and every
\* outcome of the Provider call.
NullPartReply == Reply(Envelope(Arr(<<Candidate(Arr(<<Null>>))>>)))
GatewayReplies ==
    {HttpError(c, t) : c \in {400, 429, 500, 503}, t \in {<<>>, <<"quota exceeded">>}}
    \cup {Unreachable, NotJson, NullPartReply, FullReply}
    \cup {TextReply(s) : s \in RawTexts}
GatewayInputs ==
    {Input(m, p, NoBody, Unreachable, d) :
        m \in Methods \ {"POST"}, p \in Paths, d \in {"file", "index", "none"}}
    \cup {Input("POST", p, NoBody, Unreachable, "none") : p \in {UnknownApiPath, StaticPath}}
    \cup {Input("POST", p, b, Unreachable, "none") :
             p \in KnownPaths, b \in {BadBody, JsonBody(EmptyArr)}}
    \cup {Input("POST", p, NoBody, u, "none") : p \in KnownPaths, u \in GatewayReplies}
InitGateway == InitWith(1, BOOLEAN, GatewayInputs)
SpecGateway == InitGateway /\ [][Next]_vars

\* Requests in flight together, each with one of a few inputs.
SmallReplies ==
    {HttpError(429, <<"quota exceeded">>), Unreachable, NotJson, NullPartReply,
     TextReply(<<"[", "1", "]">>), TextReply(<<"1", " ", "1">>)}
SmallInputs ==
    {Input(m, SingleSlidePath, NoBody, Unreachable, "none") : m \in {"GET", "OPTIONS", "PUT"}}
    \cup {Input("POST", UnknownApiPath, NoBody, Unreachable, "none")}
    \cup {Input("POST", SingleSlidePath, b, Unreachable, "none") : b \in {BadBody, JsonBody(EmptyArr)}}
    \cup {Input("POST", SingleSlidePath, NoBody, u, "none") : u \in SmallReplies}
    \cup {Input("POST", SlideImagePath, NoBody, FullReply, "none")}
Init == InitWith(MaxRequests, BOOLEAN, SmallInputs)
Spec == Init /\ [][Next]_vars

(* ------------------------------------------------- extractor properties *)
\* A reply of the documented shape: candidates absent or a list of
\* candidates, each with content.parts a list of text parts {text} and
\* inline-data parts {inlineData: {mimeType, data}}.
Field(x, k) == IF x.t = "obj" /\ k \in DOMAIN x.v THEN x.v[k] ELSE [t |-> "none", v |-> <<>>]
IsPart(p) ==
    \/ Field(p, "text").t = "str" /\ Field(p, "inlineData").t = "absent"
    \/ /\ Field(p, "text").t = "absent"
       /\ Field(Field(p, "inlineData"), "data").t = "str"
IsCandidate(c) ==
    LET parts == Field(Field(c, "content"), "parts")
    IN  /\ parts.t = "arr"
        /\ \A i \in DOMAIN parts.v : IsPart(parts.v[i])
IsEnvelope(e) ==
    LET candidates == Field(e, "candidates")
    IN  \/ candidates.t = "absent"
        \/ /\ candidates.t = "arr"
           /\ \A i \in DOMAIN candidates.v : IsCandidate(candidates.v[i])

\* candidates[0].content.parts of a reply of the documented shape.
FirstParts(e) ==
    IF e.v.candidates.t = "absent" \/ e.v.candidates.v = <<>> THEN <<>>
    ELSE e.v.candidates.v[1].v.content.v.parts.v

IsTextPart(p) == p.v.text.t = "str"
IsInlinePart(p) == p.v.inlineData.t = "obj"

\* The texts of the text parts of ps, one after the other.
RECURSIVE TextsOf(_)
TextsOf(ps) ==
    IF ps = <<>> THEN <<>>
    ELSE TextsOf(SubSeq(ps, 1, Len(ps) - 1))
         \o (IF IsTextPart(ps[Len(ps)]) THEN ps[Len(ps)].v.text.v ELSE <<>>)

\* The request r went through extraction of a reply of the documented shape.
Extracting(r, paths) ==
    /\ input[r].path \in paths
    /\ input[r].upstream.kind = "ok"
    /\ IsEnvelope(input[r].upstream.env)
    /\ pc[r] \in {"Extracted", "Responded", "Failed"}
    /\ failure[r].at \notin {"parse", "build", "config", "call"}

TextPaths == {OutlinePath, SingleSlidePath, EnhanceNotesPath}
ImagePaths == {SlideImagePath, ThemedBackgroundPath}

\* C8: extractText returns the texts of the text parts of
\* candidates[0].content.parts, concatenated in part order with no
\* separator, consulting the first candidate only; the empty string when
\* candidates is absent or empty or when no part is a text part.
C8_ExtractTextConcatenates ==
    \A r \in Requests :
        Extracting(r, TextPaths) =>
            /\ failure[r].at # "extract"
            /\ extracted[r] = Str(TextsOf(FirstParts(input[r].upstream.env)))

\* C8 witness: text parts "A" and "B" of the first candidate came out as "AB".
C8_Witness ==
    \E r \in Requests :
        /\ Extracting(r, TextPaths)
        /\ Len(FirstParts(input[r].upstream.env)) = 2
        /\ \A i \in 1..2 : IsTextPart(FirstParts(input[r].upstream.env)[i])
        /\ Len(input[r].upstream.env.v.candidates.v) = 2
        /\ extracted[r] = Str(<<"A", "B">>)

\* The positions of ps that hold an inline-data part satisfying Keep.
InlineAt(ps, Keep(_)) == {i \in DOMAIN ps : IsInlinePart(ps[i]) /\ Keep(ps[i].v.inlineData.v.data)}
AnyData(d) == TRUE
SomeData(d) == d.v # <<>>
Least(S) == CHOOSE i \in S : \A j \in S : i <= j
FirstData(ps, Keep(_)) ==
    IF InlineAt(ps, Keep) = {} THEN EmptyStr
    ELSE ps[Least(InlineAt(ps, Keep))].v.inlineData.v.data

\* C7 as stated: extractInlineBase64 returns the data field of the first
\* inline-data part of candidates[0].content.parts, whatever it holds, and
\* ignores every later inline-data part.
C7_FirstInlinePart ==
    \A r \in Requests :
        Extracting(r, ImagePaths) =>
            /\ failure[r].at # "extract"
            /\ extracted[r] = FirstData(FirstParts(input[r].upstream.env), AnyData)

\* C7 amended: extractInlineBase64 returns the data field of the first
\* inline-data part of candidates[0].content.parts whose data is not empty,
\* ignoring every later one; the empty string when candidates is absent or
\* empty or when no part holds inline data that is not empty.
C7_FirstNonEmptyInlinePart ==
    \A r \in Requests :
        Extracting(r, ImagePaths) =>
            /\ failure[r].at # "extract"
            /\ extracted[r] = FirstData(FirstParts(input[r].upstream.env), SomeData)

\* C7 witness: of two inline-data parts "X" and "Y" the first came out.
C7_Witness ==
    \E r \in Requests :
        /\ Extracting(r, ImagePaths)
        /\ FirstParts(input[r].upstream.env) = <<InlinePart(Str(<<"X">>)), InlinePart(Str(<<"Y">>))>>
        /\ extracted[r] = Str(<<"X">>)

\* C10 as stated: neither extractor raises, whatever the reply holds.
C10_ExtractorsNeverRaise ==
    \A r \in Requests : failure[r].at # "extract"

(* ---------------------------------------------------- prompt properties *)
\* A Provider request body of the documented shape: contents holds one user
\* entry with at least one part, each part a text or inline data.
WellFormedBody(body) ==
    LET contents == Field(body, "contents")
    IN  /\ contents.t = "arr"
        /\ Len(contents.v) = 1
        /\ Field(contents.v[1], "role") = Str(<<"user">>)
        /\ Field(contents.v[1], "parts").t = "arr"
        /\ Len(Field(contents.v[1], "parts").v) >= 1
        /\ \A i \in DOMAIN Field(contents.v[1], "parts").v :
              LET part == Field(contents.v[1], "parts").v[i]
              IN  Field(part, "text").t = "str" \/ Field(part, "inlineData").t = "obj"

\* The request r is a POST to a known path whose body is a JSON object (or
\* no body at all) and prompt construction is over.
Constructed(r) ==
    /\ input[r].method = "POST"
    /\ input[r].path \in KnownPaths
    /\ input[r].raw.kind \in {"none", "json"}
    /\ _read_json(input[r].raw).t = "obj"
    /\ pc[r] \notin {"Received", "Parsed"}

\* C6 as stated: for every such body prompt construction raises no error,
\* the request is not rejected before forwarding, and a Provider call is
\* issued with a well-formed request body.
C6_CallAlwaysIssued ==
    \A r \in Requests :
        Constructed(r) =>
            /\ failure[r].at \notin {"parse", "build", "config"}
            /\ WellFormedBody(prompt[r].body)
            /\ pc[r] # "Built" => Len(calls[r]) = 1 /\ calls[r][1].body = prompt[r].body

\* C6 amended: for every such body prompt construction raises no error and
\* yields a well-formed request body; when the server holds an API key a
\* Provider call is issued with that body, and when it holds none the
\* request is answered 500 for the missing key and no call is issued.
C6_PromptAlwaysBuilt ==
    \A r \in Requests :
        Constructed(r) =>
            /\ failure[r].at \notin {"parse", "build"}
            /\ WellFormedBody(prompt[r].body)
            /\ pc[r] # "Built" =>
                  IF apiKey
                  THEN Len(calls[r]) = 1 /\ calls[r][1].body = prompt[r].body
                  ELSE /\ calls[r] = <<>>
                       /\ failure[r] = Failure(Exc("RuntimeError", 0, <<>>), "config")
                       /\ responses[r] = <<_text_response(500, <<"Missing GEMINI_API_KEY on the server">>)>>

\* C6 witness: a body with every field null or absent was forwarded.
C6_Witness ==
    \E r \in Requests :
        /\ Constructed(r)
        /\ input[r].path = SingleSlidePath
        /\ input[r].raw.kind = "json"
        /\ input[r].raw.json.v.existingSlides = Null
        /\ input[r].raw.json.v.insertIndex = Absent
        /\ Len(calls[r]) = 1

\* The request r built the single-slide prompt from a non-empty list of
\* existing slides and an integer insertIndex.
Outlined(r) ==
    /\ Constructed(r)
    /\ input[r].path = SingleSlidePath
    /\ Field(payload[r], "existingSlides").t = "arr"
    /\ Field(payload[r], "existingSlides").v # <<>>
    /\ Field(payload[r], "insertIndex").t = "int"

\* The lines of the context after its two heading lines.
OutlineLines(r) == SubSeq(prompt[r].context, 3, Len(prompt[r].context))
MarkersOf(lines) == {i \in DOMAIN lines : lines[i] = MarkerLine}
IsSlideLine(line, number) ==
    /\ Len(line) >= 1 + Len(Digits(number))
    /\ SubSeq(line, 1, 1 + Len(Digits(number))) = <<"Slide ">> \o Digits(number)

\* The context of n slides with insertIndex k as C9 describes it.
MarkedOutline(lines, n, k) ==
    IF 0 <= k /\ k <= n
    THEN /\ Len(lines) = n + 1
         /\ MarkersOf(lines) = {k + 1}
         /\ \A i \in 1..n : IsSlideLine(lines[IF i <= k THEN i ELSE i + 1], i)
    ELSE /\ Len(lines) = n
         /\ MarkersOf(lines) = {}
         /\ \A i \in 1..n : IsSlideLine(lines[i], i)

\* C9 as stated: the context lists Slide 1 .. Slide n in order, with the
\* insertion marker exactly once, right before the line of slide k+1 (after
\* the last line when k = n), when 0 <= k <= n, and no marker otherwise.
C9_MarkerForEveryIndex ==
    \A r \in Requests :
        Outlined(r) =>
            MarkedOutline(OutlineLines(r),
                          Len(Field(payload[r], "existingSlides").v),
                          Field(payload[r], "insertIndex").v)

\* What the code does instead: as C9 for every k except 0, which line 168
\* turns into -1, so that no marker is emitted.
C9_MarkerExceptIndexZero ==
    \A r \in Requests :
        Outlined(r) =>
            MarkedOutline(OutlineLines(r),
                          Len(Field(payload[r], "existingSlides").v),
                          IF Field(payload[r], "insertIndex").v = 0 THEN -1
                          ELSE Field(payload[r], "insertIndex").v)

(* --------------------------------------------------- gateway properties *)
Done(r) == pc[r] \in {"Responded", "Failed"}

\* The request r is a POST to a known path whose Provider call failed with
\* an upstream HTTP error.
UpstreamFailed(r) ==
    /\ input[r].method = "POST"
    /\ input[r].path \in KnownPaths
    /\ input[r].upstream.kind = "HTTPError"
    /\ calls[r] # <<>>

\* C1 as stated: an upstream HTTP error of status s and body b is answered
\* with status s and body b unchanged, whatever b is.
C1_UpstreamErrorVerbatim ==
    \A r \in Requests :
        UpstreamFailed(r) =>
            responses[r] = <<_text_response(input[r].upstream.code, input[r].upstream.text)>>

\* C1 amended: an upstream HTTP error of status s and body b is answered
\* with status s and, when b is not empty, body b unchanged; an empty b is
\* answered with the body "Upstream error".
C1_UpstreamErrorForwarded ==
    \A r \in Requests :
        UpstreamFailed(r) =>
            responses[r] =
                <<_text_response(input[r].upstream.code,
                                 IF input[r].upstream.text = <<>> THEN <<"Upstream error">>
                                 ELSE input[r].upstream.text)>>

\* C1 witness: a 429 with a body was forwarded.
C1_Witness ==
    \E r \in Requests :
        /\ UpstreamFailed(r)
        /\ input[r].upstream.code = 429
        /\ responses[r] = <<_text_response(429, <<"quota exceeded">>)>>

\* s occurs in t as a run of consecutive atoms.
Occurs(s, t) == \E i \in 0..(Len(t) - Len(s)) : SubSeq(t, i + 1, i + Len(s)) = s

\* The request r is a POST to /api/single-slide whose Provider call
\* succeeded with a reply of the documented shape, and it is answered.
SlideAnswered(r) ==
    /\ input[r].method = "POST"
    /\ input[r].path = SingleSlidePath
    /\ input[r].upstream.kind = "ok"
    /\ IsEnvelope(input[r].upstream.env)
    /\ calls[r] # <<>>
    /\ Done(r)

\* C2: on /api/single-slide, after a successful Provider call, text that
\* does not parse as JSON (the empty text too) is answered 500 "Model did
\* not return valid JSON" without the text in the body; text that parses is
\* answered 200 with the parsed value as the body.
C2_SingleSlideJson ==
    \A r \in Requests :
        SlideAnswered(r) =>
            LET text == TextsOf(FirstParts(input[r].upstream.env))
            IN  IF IsRaise(Loads(text))
                THEN /\ responses[r] = <<_text_response(500, <<"Model did not return valid JSON">>)>>
                     /\ text # <<>> => ~Occurs(text, responses[r][1].body)
                ELSE responses[r] = <<_json_response(200, Loads(text))>>

\* C2 witness: text that is no JSON was answered 500, and JSON text
\* surrounded by blanks is answered 200 in another run.
C2_Witness ==
    \E r \in Requests :
        /\ SlideAnswered(r)
        /\ extracted[r] = Str(<<"[", "1", ",">>)
        /\ responses[r][1].status = 500

\* The request r is no POST, its path is one of the paths under /api/, and
\* it is answered.
OtherMethod(r) ==
    /\ input[r].method # "POST"
    /\ input[r].path \in KnownPaths \cup {UnknownApiPath}
    /\ pc[r] # "Received"

\* C3 as stated: a request under /api/ of any method but POST is answered
\* 405, and no Provider call is made for it.
C3_Always405 ==
    \A r \in Requests :
        OtherMethod(r) =>
            /\ Len(responses[r]) = 1
            /\ responses[r][1].status = 405
            /\ calls[r] = <<>>

\* C3 amended: a GET under /api/ is answered 405, an OPTIONS 204, and a
\* request of any other method but POST 501 by the base handler, as Handler
\* defines no method for it; no Provider call is made for any of them.
C3_StatusByMethod ==
    \A r \in Requests :
        OtherMethod(r) =>
            /\ Len(responses[r]) = 1
            /\ responses[r][1].status =
                  CASE input[r].method = "GET" -> 405
                    [] input[r].method = "OPTIONS" -> 204
                    [] OTHER -> 501
            /\ calls[r] = <<>>

\* C3 witness: a GET of /api/single-slide was answered 405.
C3_Witness ==
    \E r \in Requests :
        /\ OtherMethod(r)
        /\ input[r].method = "GET"
        /\ input[r].path = SingleSlidePath
        /\ responses[r] = <<_text_response(405, <<"Method not allowed">>)>>

\* C4: whatever the interleaving, a request causes at most one Provider
\* call; a failed call is not retried; a request that fails before the call
\* (body, prompt, API key), that targets an unknown path or that is no POST
\* causes none.
C4_AtMostOneCall ==
    \A r \in Requests :
        /\ Len(calls[r]) <= 1
        /\ failure[r].at = "call" /\ input[r].upstream.kind # "ok" => Len(calls[r]) = 1
        /\ \/ failure[r].at \in {"parse", "build", "config"}
           \/ input[r].path \notin KnownPaths
           \/ input[r].method # "POST"
           => calls[r] = <<>>

\* C4 witness: a call failed and was not repeated while another request
\* was waiting for its own call.
C4_Witness ==
    \E r, q \in Requests :
        /\ r # q
        /\ failure[r].at = "call"
        /\ Len(calls[r]) = 1
        /\ pc[q] = "Built"
        /\ failure[q] = NoFailure

Lifecycle ==
    {<<"Received", "Parsed">>, <<"Parsed", "Built">>, <<"Built", "Called">>,
     <<"Called", "Extracted">>, <<"Extracted", "Responded">>}
    \cup {<<s, "Failed">> : s \in {"Received", "Parsed", "Built", "Called", "Extracted"}}

\* C5: a POST moves Received, Parsed, Built, Called, Extracted, Responded
\* in that order or short-circuits to Failed; a failure of any step is
\* caught and answered with an error, so that a request that ended has
\* exactly one response, a request under way none, and no failure escapes.
C5_Lifecycle ==
    /\ [](\A r \in Requests :
             input[r].method = "POST" =>
                /\ pc[r] # "Escaped"
                /\ Len(responses[r]) = IF Done(r) THEN 1 ELSE 0
                /\ pc[r] = "Failed" => responses[r][1].status >= 400
                /\ pc[r] = "Responded" => responses[r][1].status = 200 /\ failure[r] = NoFailure)
    /\ [][\A r \in Requests :
             input[r].method = "POST" =>
                /\ pc'[r] # pc[r] => <<pc[r], pc'[r]>> \in Lifecycle
                /\ Done(r) => responses'[r] = responses[r]]_vars

\* C5 witness: extraction raised, and the request was answered 500.
C5_Witness ==
    \E r \in Requests :
        /\ input[r].method = "POST"
        /\ failure[r].at = "extract"
        /\ pc[r] = "Failed"
        /\ Len(responses[r]) = 1
        /\ responses[r][1].status = 500

====
